---- MODULE Spec2Model ----
(***************************************************************************)
(* The ASCII-map path walker: collectLettersAndPath and the grid           *)
(* primitives it uses.  A grid is a sequence of rows, a row a sequence of  *)
(* one-character strings; rows may differ in length.  Positions are        *)
(* zero-based records [row, col] as in the source; Cell adds the offset of *)
(* TLA+'s one-based sequences.                                             *)
(***************************************************************************)
EXTENDS Integers, Sequences, FiniteSets, TLC

VARIABLES grid, pc, error, start, end, haveMultipleStart, direction,
          currentPosition, path, letters, location, trail, calls, results

vars == <<grid, pc, error, start, end, haveMultipleStart, direction,
          currentPosition, path, letters, location, trail, calls, results>>

(***************************************************************************)
(* Characters and messages                                                 *)
(***************************************************************************)
STARTING_CHAR == "@"
ENDING_CHAR == "x"
MINUS_CHAR == "-"
VERTICAL_CHAR == "|"
CHANGE_DIRECTION_CHAR == "+"

UpperCase ==
  {"A", "B", "C", "D", "E", "F", "G", "H", "I", "J", "K", "L", "M",
   "N", "O", "P", "Q", "R", "S", "T", "U", "V", "W", "X", "Y", "Z"}

MsgStartEnd == "The map must contain exactly one start '@' and one end 'x'."
MsgStartingPath == "The map must contain exactly one starting path."
MsgOneDirection == "The map must have only one valid direction."
MsgBroken == "Path is broken or invalid."
MsgInvalidStart == "Invalid starting position or map."
NoError == ""

\* null for a Position (findPosition) and for a Direction (not yet assigned)
NullPosition == [row |-> -1, col |-> -1]
NullDirection == [row |-> 0, col |-> 0]

(***************************************************************************)
(* Grid primitives                                                         *)
(***************************************************************************)
DIRECTIONS ==
  << [row |-> -1, col |-> 0],   \* Up
     [row |-> 1, col |-> 0],    \* Down
     [row |-> 0, col |-> -1],   \* Left
     [row |-> 0, col |-> 1] >>  \* Right

Up == DIRECTIONS[1]
Down == DIRECTIONS[2]
Left == DIRECTIONS[3]
Right == DIRECTIONS[4]

Cell(g, p) == g[p.row + 1][p.col + 1]

filterDirections(currentDirection) ==
  SelectSeq(DIRECTIONS,
            LAMBDA d : IF currentDirection.row = 0 THEN d.row # 0 ELSE d.row = 0)

RECURSIVE findPositionFrom(_, _, _, _)
findPositionFrom(g, char, row, col) ==
  IF row >= Len(g) THEN NullPosition
  ELSE IF col >= Len(g[row + 1]) THEN findPositionFrom(g, char, row + 1, 0)
  ELSE IF g[row + 1][col + 1] = char THEN [row |-> row, col |-> col]
  ELSE findPositionFrom(g, char, row, col + 1)

RECURSIVE findPositionUpFrom(_, _, _, _)
findPositionUpFrom(g, char, row, col) ==
  IF row < 0 THEN NullPosition
  ELSE IF col >= Len(g[row + 1])
       THEN findPositionUpFrom(g, char, row - 1, 0)
  ELSE IF g[row + 1][col + 1] = char THEN [row |-> row, col |-> col]
  ELSE findPositionUpFrom(g, char, row, col + 1)

\* findPosition with the rows scanned from the bottom one up
findPositionBottomUp(g, char) == findPositionUpFrom(g, char, Len(g) - 1, 0)

findPosition(g, char) == findPositionFrom(g, char, 0, 0)

\* isWithinBounds that takes every row to be as long as the first one
isWithinBoundsRect(g, position) ==
  /\ position.row >= 0
  /\ position.row < Len(g)
  /\ position.col >= 0
  /\ position.col < Len(g[1])

isWithinBounds(g, position) ==
  /\ position.row >= 0
  /\ position.row < Len(g)
  /\ position.col >= 0
  /\ position.col < Len(g[position.row + 1])

isPathCharacter(char) ==
  \/ char = MINUS_CHAR
  \/ char = VERTICAL_CHAR
  \/ char = CHANGE_DIRECTION_CHAR

\* the test  /[A-Z]/  on a one-character cell
IsLetter(char) == char \in UpperCase

\* the walkable test with the start character let through
WalkableWithStart(char) ==
  isPathCharacter(char) \/ char \in UpperCase \cup {ENDING_CHAR, STARTING_CHAR}

\* the test  isPathCharacter(c) || /[A-Zx]/.test(c)  on a one-character cell
Walkable(char) == isPathCharacter(char) \/ char \in UpperCase \cup {ENDING_CHAR}

\* move that adds the direction twice
moveTwice(position, dir) ==
  [row |-> position.row + 2 * dir.row, col |-> position.col + 2 * dir.col]

move(position, dir) ==
  [row |-> position.row + dir.row, col |-> position.col + dir.col]

\* in bounds and walkable: the test every candidate cell goes through
CanEnter(g, position) ==
  isWithinBounds(g, position) /\ Walkable(Cell(g, position))

\* haveOneValidDirection without its error
haveOneValidDirectionNoThrow(g, position, currentDirection) ==
  IF Cell(g, position) # CHANGE_DIRECTION_CHAR THEN "false" ELSE "true"

\* "throw" (more than one valid direction), "true" or "false"
haveOneValidDirection(g, position, currentDirection) ==
  IF Cell(g, position) # CHANGE_DIRECTION_CHAR THEN "false"
  ELSE LET validDirections ==
             Len(SelectSeq(filterDirections(currentDirection),
                           LAMBDA d : CanEnter(g, move(position, d))))
       IN IF validDirections > 1 THEN "throw" ELSE "true"

\* isLocationAlreadyUsed comparing object identity: never equal
isLocationAlreadyUsedByIdentity(loc, position) == FALSE

isLocationAlreadyUsed(loc, position) ==
  \E i \in 1..Len(loc) : loc[i].col = position.col /\ loc[i].row = position.row

RECURSIVE hasMultipleFrom(_, _, _, _, _)
hasMultipleFrom(g, target, row, col, occurrences) ==
  IF row >= Len(g) THEN FALSE
  ELSE IF col >= Len(g[row + 1]) THEN hasMultipleFrom(g, target, row + 1, 0, occurrences)
  ELSE IF g[row + 1][col + 1] = target
       THEN IF target \in occurrences THEN TRUE
            ELSE hasMultipleFrom(g, target, row, col + 1, occurrences \cup {target})
       ELSE hasMultipleFrom(g, target, row, col + 1, occurrences)

\* hasMultipleOccurrences that never records the first occurrence
hasMultipleOccurrencesNoAdd(g, target) == FALSE

\* hasMultipleOccurrences with a set of occurrences that is new on each row
hasMultipleOccurrencesPerRow(g, target) ==
  \E r \in 1..Len(g) : hasMultipleFrom(<<g[r]>>, target, 0, 0, {})

hasMultipleOccurrences(g, target) == hasMultipleFrom(g, target, 0, 0, {})

(***************************************************************************)
(* Direction inference and the next step                                   *)
(***************************************************************************)
\* the directions out of the start cell that lead to a walkable cell
StartDirections(g, s) ==
  SelectSeq(DIRECTIONS, LAMBDA d : CanEnter(g, move(s, d)))

\* findInitialDirection taking the first of several directions
findInitialDirectionFirst(g, s) ==
  IF Len(SelectSeq(DIRECTIONS, LAMBDA d : CanEnter(g, move(s, d)))) >= 1
  THEN [throws |-> FALSE,
        dir |-> SelectSeq(DIRECTIONS, LAMBDA d : CanEnter(g, move(s, d)))[1]]
  ELSE [throws |-> TRUE, dir |-> NullDirection]

\* findInitialDirection returning null when there are several directions
findInitialDirectionNullOnMany(g, s) ==
  IF Len(SelectSeq(DIRECTIONS, LAMBDA d : CanEnter(g, move(s, d)))) = 1
  THEN [throws |-> FALSE,
        dir |-> SelectSeq(DIRECTIONS, LAMBDA d : CanEnter(g, move(s, d)))[1]]
  ELSE IF Len(SelectSeq(DIRECTIONS, LAMBDA d : CanEnter(g, move(s, d)))) = 0
       THEN [throws |-> TRUE, dir |-> NullDirection]
       ELSE [throws |-> FALSE, dir |-> NullDirection]

\* findInitialDirection returning null when there is no direction
findInitialDirectionNullOnNone(g, s) ==
  IF Len(SelectSeq(DIRECTIONS, LAMBDA d : CanEnter(g, move(s, d)))) = 1
  THEN [throws |-> FALSE,
        dir |-> SelectSeq(DIRECTIONS, LAMBDA d : CanEnter(g, move(s, d)))[1]]
  ELSE IF Len(SelectSeq(DIRECTIONS, LAMBDA d : CanEnter(g, move(s, d)))) = 0
       THEN [throws |-> FALSE, dir |-> NullDirection]
       ELSE [throws |-> TRUE, dir |-> NullDirection]

\* [throws, dir]: throws the starting-path error unless exactly one direction
findInitialDirection(g, s) ==
  LET validDirections == StartDirections(g, s)
  IN IF Len(validDirections) = 1
     THEN [throws |-> FALSE, dir |-> validDirections[1]]
     ELSE [throws |-> TRUE, dir |-> NullDirection]

NotOpposite(dir, currentDirection) ==
  dir.row # -currentDirection.row \/ dir.col # -currentDirection.col

\* TurnCandidates over all four directions but the opposite one
TurnCandidatesAll(g, position, currentDirection) ==
  SelectSeq(DIRECTIONS,
            LAMBDA d : /\ isWithinBounds(g, move(position, d))
                       /\ (d.row # -currentDirection.row \/ d.col # -currentDirection.col)
                       /\ Walkable(Cell(g, move(position, d))))

\* TurnCandidates over all four directions, the opposite one included
TurnCandidatesBack(g, position, currentDirection) ==
  SelectSeq(DIRECTIONS,
            LAMBDA d : /\ isWithinBounds(g, move(position, d))
                       /\ Walkable(Cell(g, move(position, d))))

\* the perpendicular directions that pass the in-bounds, not-opposite and
\* walkable tests, in DIRECTIONS order
TurnCandidates(g, position, currentDirection) ==
  SelectSeq(filterDirections(currentDirection),
            LAMBDA d : /\ isWithinBounds(g, move(position, d))
                       /\ NotOpposite(d, currentDirection)
                       /\ Walkable(Cell(g, move(position, d))))

StepTo(position, dir) ==
  [kind |-> "step", nextPosition |-> move(position, dir), newDirection |-> dir]

NoStep(kind) ==
  [kind |-> kind, nextPosition |-> NullPosition, newDirection |-> NullDirection]

\* the end test of the loop comparing rows only
AtEndRowOnly(position, e) == position.row = e.row

\* the end test of the loop comparing object identity: never equal
AtEndByIdentity(position, e) == FALSE

\* the end test of the loop
AtEnd(position, e) == position.row = e.row /\ position.col = e.col

\* findNextPosition going straight on from a '+' that has no turn
findNextPositionStraight(g, position, currentDirection) ==
  IF Cell(g, position) = CHANGE_DIRECTION_CHAR
       /\ haveOneValidDirection(g, position, currentDirection) = "throw"
  THEN NoStep("throw")
  ELSE IF Cell(g, position) = CHANGE_DIRECTION_CHAR
            /\ Len(TurnCandidates(g, position, currentDirection)) > 0
       THEN StepTo(position, TurnCandidates(g, position, currentDirection)[1])
       ELSE IF CanEnter(g, move(position, currentDirection))
            THEN StepTo(position, currentDirection)
            ELSE IF ~isWithinBounds(g, move(position, currentDirection))
                      /\ IsLetter(Cell(g, position))
                      /\ Len(TurnCandidates(g, position, currentDirection)) > 0
                 THEN StepTo(position, TurnCandidates(g, position, currentDirection)[1])
                 ELSE NoStep("null")

\* findNextPosition letting any cell at the edge of the grid turn
findNextPositionAnyTurn(g, position, currentDirection) ==
  IF Cell(g, position) = CHANGE_DIRECTION_CHAR
  THEN findNextPositionStraight(g, position, currentDirection)
  ELSE IF CanEnter(g, move(position, currentDirection))
       THEN StepTo(position, currentDirection)
       ELSE IF ~isWithinBounds(g, move(position, currentDirection))
                 /\ Len(TurnCandidates(g, position, currentDirection)) > 0
            THEN StepTo(position, TurnCandidates(g, position, currentDirection)[1])
            ELSE NoStep("null")

\* findNextPosition refusing to cross a '|' sideways or a '-' lengthways
findNextPositionAxis(g, position, currentDirection) ==
  IF \/ Cell(g, position) = VERTICAL_CHAR /\ currentDirection.row = 0
     \/ Cell(g, position) = MINUS_CHAR /\ currentDirection.col = 0
  THEN NoStep("null")
  ELSE findNextPositionStraight(g, position, currentDirection)

\* kind "step" (a move), "null" (no next step) or "throw" (the error of
\* haveOneValidDirection)
\* findNextPosition with the ambiguity check of a turn made at a letter too
findNextPositionLetterChecked(g, position, currentDirection) ==
  LET currentChar == Cell(g, position)
      cands == TurnCandidates(g, position, currentDirection)
      ahead == move(position, currentDirection)
      one == IF currentChar = CHANGE_DIRECTION_CHAR
             THEN haveOneValidDirection(g, position, currentDirection)
             ELSE "false"
  IN IF one = "throw" THEN NoStep("throw")
     ELSE IF one = "true"
          THEN IF Len(cands) > 0 THEN StepTo(position, cands[1]) ELSE NoStep("null")
          ELSE IF isWithinBounds(g, ahead)
               THEN IF Walkable(Cell(g, ahead))
                    THEN StepTo(position, currentDirection)
                    ELSE NoStep("null")
               ELSE IF IsLetter(currentChar) /\ Len(cands) > 1
                    THEN NoStep("throw")
                    ELSE IF IsLetter(currentChar) /\ Len(cands) > 0
                         THEN StepTo(position, cands[1])
                         ELSE NoStep("null")

findNextPosition(g, position, currentDirection) ==
  LET currentChar == Cell(g, position)
      cands == TurnCandidates(g, position, currentDirection)
      ahead == move(position, currentDirection)
      \* && evaluates haveOneValidDirection only on a '+'
      one == IF currentChar = CHANGE_DIRECTION_CHAR
             THEN haveOneValidDirection(g, position, currentDirection)
             ELSE "false"
  IN IF one = "throw" THEN NoStep("throw")
     ELSE IF one = "true"
          THEN IF Len(cands) > 0 THEN StepTo(position, cands[1]) ELSE NoStep("null")
          ELSE IF isWithinBounds(g, ahead)
               THEN IF Walkable(Cell(g, ahead))
                    THEN StepTo(position, currentDirection)
                    ELSE NoStep("null")
               ELSE IF IsLetter(currentChar) /\ Len(cands) > 0
                    THEN StepTo(position, cands[1])
                    ELSE NoStep("null")

(***************************************************************************)
(* Input grids: the maps of the repository's tests and a few more, each    *)
(* with up to MaxEdits cells overwritten by any character of Alphabet.     *)
(***************************************************************************)
MaxEdits == 1

Alphabet == {"@", "x", "-", "|", "+", "A", "B", " "}

\* maps.ts, "should throw error for map with multiple start characters"
MultipleStartTestMap ==
  << <<"@", "-", "A", "-", "@">>,
     <<" ", " ", "|", " ", "x">> >>

\* maps.ts, "should throw error for broken path"
BrokenPathTestMap ==
  << <<"@", "-", "A", "-", "+">>,
     <<" ", " ", "|", " ", " ">>,
     <<" ", " ", "B", " ", "x">> >>

\* maps.ts, "should collect letters and path correctly"
CollectTestMap ==
  << <<"@", "-", "A", "-", "+">>,
     <<" ", " ", "|", " ", "x">> >>

\* maps.ts, "should throw error for fork in path"
ForkTestMap ==
  << <<"@", "-", "A", "-", "+">>,
     <<" ", " ", "|", " ", "C">>,
     <<"x", "+", " ", " ", " ">> >>

\* maps.ts, findPosition test without a start
NoStartTestMap ==
  << <<" ", " ", " ">>,
     <<" ", " ", " ">>,
     <<" ", " ", "x">> >>

keepDirectionEvenInCompactSpaceMap ==
  << <<"", "+", "-", "L", "-", "+">>,
     <<"", "|", "", "", "+", "A", "-", "+">>,
     <<"@", "B", "+", "", "+", "+", "", "H">>,
     <<"", "+", "+", "", "", "", "", "x">> >>

multipleStart3Map ==
  << <<" ", "@", "-", "-", "A", "-", "-", "x">>,
     <<" ">>,
     <<"x", "-", "B", "-", "+">>,
     <<" ", " ", " ", " ", "|">>,
     <<" ", " ", " ", " ", "@">> >>

mapWithMultipleStartingPaths ==
  << <<"x", "-", "B", "-", "@", "-", "A", "-", "x">> >>

fakeTurnMap ==
  << <<"@", "-", "A", "-", "+", "-", "B", "-", "x">> >>

\* a closed ring of turns entered from the start, the end elsewhere
RingMap ==
  << <<"@", "+", "+">>,
     <<" ", "+", "+">>,
     <<"x">> >>

\* a letter crossed twice, first horizontally and then vertically
CrossingMap ==
  << <<" ", "x">>,
     <<"@", "A", "+">>,
     <<" ", "+", "+">> >>

\* a letter at the edge of the grid, where the path turns
LetterTurnMap ==
  << <<"@", "-", "A">>,
     <<" ", "x", "+">> >>

\* a letter with a blank cell ahead and a turn below
LetterBlockedMap ==
  << <<"@", "-", "A", " ">>,
     <<" ", "x", "+">> >>

\* a letter at the edge with walkable cells on both sides
LetterForkMap ==
  << <<" ", "x", "+">>,
     <<"@", "-", "A">>,
     <<" ", "B", "+">> >>

\* a turn with walkable cells on both sides
TurnForkMap ==
  << <<" ", " ", "x">>,
     <<"@", "-", "+">>,
     <<" ", " ", "B">> >>

\* two ends; the walk runs into the one that comes second in row-major order
SecondEndMap ==
  << <<"x">>,
     << >>,
     <<"@", "-", "x", "-", "A">> >>

\* the path goes on behind the end
BeyondEndMap ==
  << <<"@", "A", "x", "B", "+">>,
     <<" ", " ", " ", "-", "+">> >>

\* a '|' crossed from the side, with walkable cells above and below it
CrossSegmentMap ==
  << <<" ", "-", " ">>,
     <<"@", "|", "x">>,
     <<" ", "A", " ">> >>

EmptyMap == << >>

Templates ==
  << MultipleStartTestMap, BrokenPathTestMap, CollectTestMap, ForkTestMap,
     NoStartTestMap, keepDirectionEvenInCompactSpaceMap, multipleStart3Map,
     mapWithMultipleStartingPaths, fakeTurnMap, RingMap, CrossingMap,
     LetterTurnMap, LetterBlockedMap, LetterForkMap, TurnForkMap,
     SecondEndMap, BeyondEndMap, CrossSegmentMap, EmptyMap >>

\* the positions of the cells of g
CellsOf(g) ==
  UNION {{[row |-> r - 1, col |-> c - 1] : c \in 1..Len(g[r])} : r \in 1..Len(g)}

RECURSIVE CellsInRows(_, _)
CellsInRows(g, n) == IF n = 0 THEN 0 ELSE CellsInRows(g, n - 1) + Len(g[n])

NumCells(g) == CellsInRows(g, Len(g))

NoEdit == [row |-> -1, col |-> -1, ch |-> ""]

EditsFor(g) ==
  {[row |-> p.row, col |-> p.col, ch |-> ch] : p \in CellsOf(g), ch \in Alphabet}
    \cup {NoEdit}

ApplyEdit(g, e) ==
  IF e.row < 0 THEN g ELSE [g EXCEPT ![e.row + 1][e.col + 1] = e.ch]

RECURSIVE ApplyEdits(_, _, _)
ApplyEdits(g, es, n) ==
  IF n = 0 THEN g ELSE ApplyEdit(ApplyEdits(g, es, n - 1), es[n])

(***************************************************************************)
(* The walk.  pc follows the walker's states: Uninitialized (nothing done),*)
(* AtStart (start and end found), Walking (in the step loop), Done (the    *)
(* record {letters, path} is returned) and Rejected (an error is thrown,   *)
(* its message in error).  trail is the history of the loop: the position  *)
(* and direction of every iteration so far.                                *)
(***************************************************************************)

\* A walk is determined by (currentPosition, direction), so one that makes
\* more than CycleBound(g) iterations has repeated a pair and never ends.
\* The accumulators of such a walk grow without limit; they are recorded up
\* to CycleBound(g) + 1 iterations only.
CycleBound(g) == 4 * NumCells(g)

Recording == Len(trail) <= CycleBound(grid)

Init ==
  /\ \E t \in 1..Len(Templates) :
       \E es \in [1..MaxEdits -> EditsFor(Templates[t])] :
         grid = ApplyEdits(Templates[t], es, MaxEdits)
  /\ pc = "Uninitialized"
  /\ error = NoError
  /\ start = NullPosition
  /\ end = NullPosition
  /\ haveMultipleStart = FALSE
  /\ direction = NullDirection
  /\ currentPosition = NullPosition
  /\ path = << >>
  /\ letters = << >>
  /\ location = << >>
  /\ trail = << >>
  /\ calls = 0
  /\ results = {}

\* the start/end check that also refuses a second end
StartEndInvalidOneEnd(g) ==
  \/ findPosition(g, STARTING_CHAR) = NullPosition
  \/ findPosition(g, ENDING_CHAR) = NullPosition
  \/ hasMultipleOccurrences(g, STARTING_CHAR)
  \/ hasMultipleOccurrences(g, ENDING_CHAR)

\* the start/end check of collectLettersAndPath
StartEndInvalid(g) ==
  \/ findPosition(g, STARTING_CHAR) = NullPosition
  \/ findPosition(g, ENDING_CHAR) = NullPosition
  \/ hasMultipleOccurrences(g, STARTING_CHAR)

\* start and end discovery
Validate ==
  /\ pc = "Uninitialized"
  /\ start' = findPosition(grid, STARTING_CHAR)
  /\ end' = findPosition(grid, ENDING_CHAR)
  /\ haveMultipleStart' = hasMultipleOccurrences(grid, STARTING_CHAR)
  /\ IF StartEndInvalid(grid)
     THEN pc' = "Rejected" /\ error' = MsgStartEnd
     ELSE pc' = "AtStart" /\ error' = error
  /\ UNCHANGED <<grid, direction, currentPosition, path, letters, location, trail>>
  /\ UNCHANGED <<calls, results>>

\* initial direction, the move out of the start cell, the accumulators
InferDirection ==
  /\ pc = "AtStart"
  /\ LET found == findInitialDirection(grid, start)
     IN IF found.throws
        THEN /\ pc' = "Rejected" /\ error' = MsgStartingPath
             /\ UNCHANGED <<direction, currentPosition, path>>
        ELSE IF found.dir = NullDirection
        THEN /\ pc' = "Rejected" /\ error' = MsgInvalidStart
             /\ direction' = found.dir
             /\ UNCHANGED <<currentPosition, path>>
        ELSE /\ pc' = "Walking" /\ error' = error
             /\ direction' = found.dir
             /\ currentPosition' = move(start, found.dir)
             /\ path' = <<STARTING_CHAR>>
  /\ UNCHANGED <<grid, start, end, haveMultipleStart, letters, location, trail>>
  /\ UNCHANGED <<calls, results>>

\* the step loop with a cap on its iterations: past the cap the walk is
\* given up as a broken path
StepCapped ==
  IF pc = "Walking" /\ ~Recording
  THEN /\ pc' = "Rejected" /\ error' = MsgBroken
       /\ UNCHANGED <<grid, start, end, haveMultipleStart, calls, results>>
       /\ UNCHANGED <<direction, currentPosition, path, letters, location, trail>>
  ELSE
      /\ pc = "Walking"
      /\ LET currentChar == Cell(grid, currentPosition)
             collect == IsLetter(currentChar)
                          /\ ~isLocationAlreadyUsed(location, currentPosition)
             nextStep == findNextPosition(grid, currentPosition, direction)
         IN /\ path' = IF Recording THEN Append(path, currentChar) ELSE path
            /\ trail' = IF Recording
                        THEN Append(trail, [pos |-> currentPosition, dir |-> direction])
                        ELSE trail
            /\ letters' = IF collect THEN Append(letters, currentChar) ELSE letters
            /\ location' = IF collect THEN Append(location, currentPosition) ELSE location
            /\ IF AtEnd(currentPosition, end)
               THEN /\ pc' = "Done"
                    /\ UNCHANGED <<error, currentPosition, direction>>
               ELSE IF nextStep.kind = "throw"
               THEN /\ pc' = "Rejected" /\ error' = MsgOneDirection
                    /\ UNCHANGED <<currentPosition, direction>>
               ELSE IF nextStep.kind = "null"
               THEN /\ pc' = "Rejected" /\ error' = MsgBroken
                    /\ UNCHANGED <<currentPosition, direction>>
               ELSE /\ pc' = "Walking" /\ error' = error
                    /\ currentPosition' = nextStep.nextPosition
                    /\ direction' = nextStep.newDirection
      /\ UNCHANGED <<grid, start, end, haveMultipleStart, calls, results>>

\* the step loop collecting letters without recording their positions
StepSkipLocation ==
  /\ pc = "Walking"
  /\ LET currentChar == Cell(grid, currentPosition)
         collect == IsLetter(currentChar)
                      /\ ~isLocationAlreadyUsed(location, currentPosition)
         nextStep == findNextPosition(grid, currentPosition, direction)
     IN /\ path' = IF Recording THEN Append(path, currentChar) ELSE path
        /\ trail' = IF Recording
                    THEN Append(trail, [pos |-> currentPosition, dir |-> direction])
                    ELSE trail
        /\ letters' = IF collect THEN Append(letters, currentChar) ELSE letters
        /\ location' = location
        /\ IF AtEnd(currentPosition, end)
           THEN /\ pc' = "Done"
                /\ UNCHANGED <<error, currentPosition, direction>>
           ELSE IF nextStep.kind = "throw"
           THEN /\ pc' = "Rejected" /\ error' = MsgOneDirection
                /\ UNCHANGED <<currentPosition, direction>>
           ELSE IF nextStep.kind = "null"
           THEN /\ pc' = "Rejected" /\ error' = MsgBroken
                /\ UNCHANGED <<currentPosition, direction>>
           ELSE /\ pc' = "Walking" /\ error' = error
                /\ currentPosition' = nextStep.nextPosition
                /\ direction' = nextStep.newDirection
  /\ UNCHANGED <<grid, start, end, haveMultipleStart, calls, results>>

\* one iteration of the step loop
Step ==
  /\ pc = "Walking"
  /\ LET currentChar == Cell(grid, currentPosition)
         collect == IsLetter(currentChar)
                      /\ ~isLocationAlreadyUsed(location, currentPosition)
         nextStep == findNextPosition(grid, currentPosition, direction)
     IN /\ path' = IF Recording THEN Append(path, currentChar) ELSE path
        /\ trail' = IF Recording
                    THEN Append(trail, [pos |-> currentPosition, dir |-> direction])
                    ELSE trail
        /\ letters' = IF collect THEN Append(letters, currentChar) ELSE letters
        /\ location' = IF collect THEN Append(location, currentPosition) ELSE location
        /\ IF AtEnd(currentPosition, end)
           THEN /\ pc' = "Done"
                /\ UNCHANGED <<error, currentPosition, direction>>
           ELSE IF nextStep.kind = "throw"
           THEN /\ pc' = "Rejected" /\ error' = MsgOneDirection
                /\ UNCHANGED <<currentPosition, direction>>
           ELSE IF nextStep.kind = "null"
           THEN /\ pc' = "Rejected" /\ error' = MsgBroken
                /\ UNCHANGED <<currentPosition, direction>>
           ELSE /\ pc' = "Walking" /\ error' = error
                /\ currentPosition' = nextStep.nextPosition
                /\ direction' = nextStep.newDirection
  /\ UNCHANGED <<grid, start, end, haveMultipleStart, calls, results>>

Next == Validate \/ InferDirection \/ Step

\* what the caller gets when the call is over: the record {letters, path}
\* or the Error thrown, and nothing of the accumulators in that case
Outcome ==
  IF pc = "Done"
  THEN [returned |-> TRUE, letters |-> letters, path |-> path, message |-> NoError]
  ELSE [returned |-> FALSE, letters |-> << >>, path |-> << >>, message |-> error]

(***************************************************************************)
(* Several calls in a row.  calls counts the calls that are over and       *)
(* results holds the grid and the outcome of each of them.  Every local of *)
(* collectLettersAndPath is declared inside the function, so a new call    *)
(* starts with all of them fresh.                                          *)
(***************************************************************************)
MaxCalls == 2

\* the grids the calls in a row are made on
CallGrids ==
  {CollectTestMap, CrossingMap, LetterForkMap, TurnForkMap,
   mapWithMultipleStartingPaths, MultipleStartTestMap}

\* a new call whose letter positions are still those of the call before
CallStale ==
  /\ pc \in {"Done", "Rejected"}
  /\ calls < MaxCalls
  /\ calls' = calls + 1
  /\ results' = results \cup {[grid |-> grid, outcome |-> Outcome]}
  /\ grid' \in CallGrids
  /\ pc' = "Uninitialized"
  /\ error' = NoError
  /\ start' = NullPosition
  /\ end' = NullPosition
  /\ haveMultipleStart' = FALSE
  /\ direction' = NullDirection
  /\ currentPosition' = NullPosition
  /\ path' = << >>
  /\ letters' = << >>
  /\ trail' = << >>
  /\ UNCHANGED location

\* the call is over and collectLettersAndPath is called again, on any grid
Call ==
  /\ pc \in {"Done", "Rejected"}
  /\ calls < MaxCalls
  /\ calls' = calls + 1
  /\ results' = results \cup {[grid |-> grid, outcome |-> Outcome]}
  /\ grid' \in CallGrids
  /\ pc' = "Uninitialized"
  /\ error' = NoError
  /\ start' = NullPosition
  /\ end' = NullPosition
  /\ haveMultipleStart' = FALSE
  /\ direction' = NullDirection
  /\ currentPosition' = NullPosition
  /\ path' = << >>
  /\ letters' = << >>
  /\ location' = << >>
  /\ trail' = << >>

CallsInit ==
  /\ grid \in CallGrids
  /\ pc = "Uninitialized"
  /\ error = NoError
  /\ start = NullPosition
  /\ end = NullPosition
  /\ haveMultipleStart = FALSE
  /\ direction = NullDirection
  /\ currentPosition = NullPosition
  /\ path = << >>
  /\ letters = << >>
  /\ location = << >>
  /\ trail = << >>
  /\ calls = 0
  /\ results = {}

CallsNext == Validate \/ InferDirection \/ Step \/ Call

CallsSpec == CallsInit /\ [][CallsNext]_vars

Spec == Init /\ [][Next]_vars

\* the loop is synchronous: an iteration that can run does run
FairSpec == Spec /\ WF_vars(Next)


TypeOK ==
  /\ pc \in {"Uninitialized", "AtStart", "Walking", "Done", "Rejected"}
  /\ error \in {NoError, MsgStartEnd, MsgStartingPath, MsgOneDirection,
                MsgBroken, MsgInvalidStart}

(***************************************************************************)
(* Properties.  The definitions below describe the grid independently of   *)
(* the walker's own helpers.                                               *)
(***************************************************************************)
RECURSIVE CountInRows(_, _, _)
CountInRows(g, char, n) ==
  IF n = 0 THEN 0
  ELSE CountInRows(g, char, n - 1) + Len(SelectSeq(g[n], LAMBDA c : c = char))

\* the number of cells of g that hold char
Count(g, char) == CountInRows(g, char, Len(g))

Dirs == {Up, Down, Left, Right}

Horizontal(d) == d.row = 0

Negated(d) == [row |-> -d.row, col |-> -d.col]

\* the cells beside p for a walker that arrived at p moving in direction d
Beside(p, d) ==
  IF Horizontal(d)
  THEN {[row |-> p.row - 1, col |-> p.col], [row |-> p.row + 1, col |-> p.col]}
  ELSE {[row |-> p.row, col |-> p.col - 1], [row |-> p.row, col |-> p.col + 1]}

Neighbour(p, d) == [row |-> p.row + d.row, col |-> p.col + d.col]

InGrid(g, p) ==
  /\ p.row \in 0..(Len(g) - 1)
  /\ p.col \in 0..(Len(g[p.row + 1]) - 1)

Open(g, p) ==
  InGrid(g, p) /\ Cell(g, p) \in {"-", "|", "+", "x"} \cup UpperCase

\* the first cell of g in row-major order that holds char
FirstCell(g, char) ==
  LET Has(r) == \E c \in 1..Len(g[r]) : g[r][c] = char
      r == CHOOSE r \in 1..Len(g) : Has(r) /\ \A q \in 1..(r - 1) : ~Has(q)
      c == CHOOSE c \in 1..Len(g[r]) :
             g[r][c] = char /\ \A q \in 1..(c - 1) : g[r][q] # char
  IN [row |-> r - 1, col |-> c - 1]

\* the start cell of a grid that has exactly one
TheStart(g) == FirstCell(g, "@")

Visited(i) == trail[i].pos

RejectedWith(msg) == pc = "Rejected" /\ error = msg

NotStarted == pc = "Uninitialized"

\* C1: a grid with no '@', with two or more '@', or with no 'x' is rejected
\* with the start/end message by the first check, before a direction is
\* inferred or a step is taken, so that no other error can come of it.
C1_StartEndRejected ==
  (Count(grid, "@") # 1 \/ Count(grid, "x") = 0) /\ ~NotStarted
    => /\ RejectedWith(MsgStartEnd)
       /\ direction = NullDirection
       /\ currentPosition = NullPosition
       /\ path = << >>
       /\ trail = << >>

C1_Witness ==
  /\ RejectedWith(MsgStartEnd)
  /\ Count(grid, "@") >= 2
  /\ Count(grid, "x") = 1

\* C2: every call terminates: the walk eventually is Done or Rejected.
C2_Terminates == <>(pc \in {"Done", "Rejected"})

\* C3: when the call returns, path begins with '@' and ends with 'x'.
C3_PathEnds ==
  pc = "Done" => /\ Len(path) >= 2
                 /\ path[1] = "@"
                 /\ path[Len(path)] = "x"

C3_Witness == pc = "Done" /\ Len(path) > 2 /\ Len(letters) > 0

\* the distinct letter cells among the first n visited, in order of first visit
RECURSIVE FirstLetterVisits(_)
FirstLetterVisits(n) ==
  IF n = 0 THEN << >>
  ELSE IF /\ Cell(grid, Visited(n)) \in UpperCase
          /\ \A j \in 1..(n - 1) : Visited(j) # Visited(n)
       THEN Append(FirstLetterVisits(n - 1), Visited(n))
       ELSE FirstLetterVisits(n - 1)

\* C4: in a successful walk every visit of a cell adds its character to
\* path (k visits, k characters), and letters holds one character for each
\* distinct visited letter cell, in the order of the first visits.
C4_LettersOncePathEveryVisit ==
  pc = "Done"
    => /\ Len(path) = Len(trail) + 1
       /\ \A i \in 1..Len(trail) : path[i + 1] = Cell(grid, Visited(i))
       /\ location = FirstLetterVisits(Len(trail))
       /\ Len(letters) = Len(location)
       /\ \A i \in 1..Len(location) : letters[i] = Cell(grid, location[i])

C4_Witness ==
  /\ pc = "Done"
  /\ \E i, j \in 1..Len(trail) :
       i < j /\ Visited(i) = Visited(j) /\ Cell(grid, Visited(i)) \in UpperCase

ForkAt(i) ==
  /\ Cell(grid, Visited(i)) = "+"
  /\ \A q \in Beside(Visited(i), trail[i].dir) : Open(grid, q)

\* the i-th visited cell is a '+' with no walkable cell on either side
DeadTurnAt(i) ==
  /\ Cell(grid, Visited(i)) = "+"
  /\ Visited(i) # end
  /\ \A q \in Beside(Visited(i), trail[i].dir) : ~Open(grid, q)

\* C6: a '+' whose two perpendicular neighbours are both in bounds and
\* walkable ends the walk there with the only-one-valid-direction message.
C6_ForkRejected ==
  \A i \in 1..Len(trail) :
    ForkAt(i) => i = Len(trail) /\ RejectedWith(MsgOneDirection)

C6_Witness ==
  /\ pc = "Rejected"
  /\ \E i \in 1..Len(trail) : ForkAt(i)

\* C7: a '+' without an in-bounds walkable perpendicular neighbour ends the
\* walk there with the broken-path message, also when the cell straight
\* ahead is walkable.
C7_DeadTurnBroken ==
  \A i \in 1..Len(trail) :
    DeadTurnAt(i) => i = Len(trail) /\ RejectedWith(MsgBroken)

C7_Witness ==
  /\ pc = "Rejected"
  /\ \E i \in 1..Len(trail) :
       DeadTurnAt(i) /\ Open(grid, Neighbour(Visited(i), trail[i].dir))

\* the directions in which the start cell has an in-bounds walkable neighbour
StartOpen(g) == {d \in Dirs : Open(g, Neighbour(TheStart(g), d))}

\* C8: with one '@' and at least one 'x', the call fails with the
\* starting-path message unless exactly one neighbour of '@' is in bounds
\* and walkable, and then the first step goes to that neighbour.
C8_OneStartingPath ==
  Count(grid, "@") = 1 /\ Count(grid, "x") >= 1 /\ pc \notin {"Uninitialized", "AtStart"}
    => IF Cardinality(StartOpen(grid)) # 1
       THEN RejectedWith(MsgStartingPath) /\ trail = << >>
       ELSE /\ error # MsgStartingPath
            /\ \E d \in StartOpen(grid) :
                 IF trail = << >>
                 THEN /\ pc = "Walking"
                      /\ currentPosition = Neighbour(TheStart(grid), d)
                      /\ direction = d
                 ELSE trail[1] = [pos |-> Neighbour(TheStart(grid), d), dir |-> d]

C8_Witness ==
  /\ RejectedWith(MsgStartingPath)
  /\ Count(grid, "@") = 1
  /\ Cardinality(StartOpen(grid)) >= 2

\* C9: the step out of a '+' is on the other axis than the step into it.
C9_TurnChangesAxis ==
  \A i \in 1..(Len(trail) - 1) :
    Cell(grid, Visited(i)) = "+"
      => /\ Horizontal(trail[i].dir) # Horizontal(trail[i + 1].dir)
         /\ Visited(i + 1) = Neighbour(Visited(i), trail[i + 1].dir)

C9_Witness ==
  \E i \in 1..(Len(trail) - 1) :
    /\ Cell(grid, Visited(i)) = "+"
    /\ Open(grid, Neighbour(Visited(i), trail[i].dir))

\* C10: no step is the reverse of the step before it, the first step out of
\* '@' included.
C10_NoReversal ==
  \A i \in 1..(Len(trail) - 1) : trail[i + 1].dir # Negated(trail[i].dir)

C10_Witness ==
  \E i \in 1..(Len(trail) - 1) :
    /\ trail[i + 1].dir # trail[i].dir
    /\ Open(grid, Neighbour(Visited(i), Negated(trail[i].dir)))

\* the cell straight ahead of the i-th visited cell
Ahead(i) == Neighbour(Visited(i), trail[i].dir)

\* the cells beside p in the order the walker tries them: up before down,
\* left before right
BesideInOrder(p, d) ==
  IF Horizontal(d)
  THEN <<[row |-> -1, col |-> 0], [row |-> 1, col |-> 0]>>
  ELSE <<[row |-> 0, col |-> -1], [row |-> 0, col |-> 1]>>

\* the directions beside the i-th visited cell that lead to a walkable cell
OpenBeside(i) ==
  SelectSeq(BesideInOrder(Visited(i), trail[i].dir),
            LAMBDA d : Open(grid, Neighbour(Visited(i), d)))

\* the walk ended in an error at the i-th visited cell
RejectedAt(i) == i = Len(trail) /\ pc = "Rejected"

\* the walk went on from the i-th visited cell in direction d
MovedFrom(i, d) ==
  /\ ~(i = Len(trail) /\ pc \in {"Done", "Rejected"})
  /\ i < Len(trail) => trail[i + 1] = [pos |-> Neighbour(Visited(i), d), dir |-> d]

\* C11: at a letter that is not the end and whose cell straight ahead is off
\* the grid or not walkable, the walk turns to the first in-bounds walkable
\* perpendicular cell, and fails with the broken-path message only when
\* there is none.
C11_LetterTurnsWhenBlocked ==
  \A i \in 1..Len(trail) :
    /\ Cell(grid, Visited(i)) \in UpperCase
    /\ Visited(i) # end
    /\ ~Open(grid, Ahead(i))
    => IF Len(OpenBeside(i)) > 0
       THEN MovedFrom(i, OpenBeside(i)[1])
       ELSE RejectedAt(i) /\ error = MsgBroken

\* C12: a '-' or '|' whose cell straight ahead is off the grid or not
\* walkable ends the walk with the broken-path message, whatever lies
\* beside it.
C12_SegmentNeverTurns ==
  \A i \in 1..Len(trail) :
    Cell(grid, Visited(i)) \in {"-", "|"} /\ ~Open(grid, Ahead(i))
      => RejectedAt(i) /\ error = MsgBroken

C12_Witness ==
  \E i \in 1..Len(trail) :
    /\ Cell(grid, Visited(i)) \in {"-", "|"}
    /\ ~Open(grid, Ahead(i))
    /\ Len(OpenBeside(i)) > 0
    /\ RejectedAt(i)

\* C13: from a '-', a '|' or a letter that is not the end, the walk goes
\* straight on whenever the cell ahead is in bounds and walkable, whatever
\* lies beside it and whichever way the segment is drawn.
C13_StraightOn ==
  \A i \in 1..Len(trail) :
    /\ Cell(grid, Visited(i)) \in {"-", "|"} \cup UpperCase
    /\ Visited(i) # end
    /\ Open(grid, Ahead(i))
    => MovedFrom(i, trail[i].dir)

C13_Witness ==
  \E i \in 1..(Len(trail) - 1) :
    /\ Cell(grid, Visited(i)) = "|"
    /\ Horizontal(trail[i].dir)
    /\ Len(OpenBeside(i)) = 2
    /\ Visited(i + 1) = Ahead(i)

\* C14: the walk stops the first time it stands on the end: the end is
\* visited once, as the last cell, and whatever lies behind it is neither
\* recorded nor the cause of an error.
C14_StopsAtEnd ==
  /\ \A i \in 1..Len(trail) :
       Visited(i) = end => i = Len(trail) /\ pc = "Done" /\ error = NoError
  /\ pc = "Done" => /\ Len(trail) >= 1
                    /\ Visited(Len(trail)) = end
                    /\ Len(path) = Len(trail) + 1
                    /\ \A j \in 1..Len(location) :
                         \E i \in 1..Len(trail) : Visited(i) = location[j]

C14_Witness ==
  /\ pc = "Done"
  /\ Open(grid, Ahead(Len(trail)))
  /\ Cell(grid, Ahead(Len(trail))) \in UpperCase

FixedMessages == {MsgStartEnd, MsgStartingPath, MsgOneDirection, MsgBroken}

\* C15: a call that is over has returned the record {letters, path} or has
\* thrown one of the four fixed messages and returned nothing; no cell
\* outside the grid is ever read.
C15_FixedOutcomes ==
  /\ pc = "Rejected" => error \in FixedMessages /\ ~Outcome.returned
  /\ pc # "Rejected" => error = NoError
  /\ pc = "Done" => Outcome.returned /\ Outcome.message = NoError
  /\ pc = "Walking" => InGrid(grid, currentPosition)
  /\ \A i \in 1..Len(trail) : InGrid(grid, Visited(i))

C15_Witness ==
  /\ pc = "Rejected"
  /\ error = MsgBroken
  /\ Len(letters) > 0
  /\ ~InGrid(grid, Ahead(Len(trail)))

\* C16: the invalid-starting-position error never occurs: after direction
\* inference the call has a direction or has thrown the starting-path error.
C16_NoInvalidStart ==
  /\ error # MsgInvalidStart
  /\ pc \in {"Walking", "Done"} => direction \in Dirs
  /\ pc = "Rejected" /\ error \notin {MsgStartEnd, MsgStartingPath}
       => direction \in Dirs

C16_Witness ==
  /\ RejectedWith(MsgStartingPath)
  /\ Count(grid, "@") = 1
  /\ Cardinality(StartOpen(grid)) = 0

\* C17: calls on the same grid have the same outcome, whatever calls on
\* other grids are made before or between them.
C17_SameGridSameOutcome ==
  /\ \A r1, r2 \in results : r1.grid = r2.grid => r1.outcome = r2.outcome
  /\ pc \in {"Done", "Rejected"}
       => \A r \in results : r.grid = grid => r.outcome = Outcome

C17_Witness ==
  /\ pc = "Done"
  /\ Len(letters) > 0
  /\ \E r \in results : r.grid = grid
  /\ \E r \in results : r.grid # grid /\ r.outcome.returned

\* the characters looked for: the two markers, a turn and the blank
Targets == {STARTING_CHAR, ENDING_CHAR, CHANGE_DIRECTION_CHAR, " "}

\* some cell of g holds char
Holds(g, char) == \E r \in 1..Len(g) : \E c \in 1..Len(g[r]) : g[r][c] = char

\* the first cell of g in row-major order that holds char, if there is one
FirstOrNull(g, char) ==
  IF Holds(g, char) THEN FirstCell(g, char) ELSE NullPosition

\* C18: findPosition returns the first cell equal to the character in
\* row-major order, each row scanned over its own length, and null exactly
\* when no cell of the grid holds the character.
C18_FirstInRowMajor ==
  /\ ~NotStarted => /\ start = FirstOrNull(grid, STARTING_CHAR)
                    /\ end = FirstOrNull(grid, ENDING_CHAR)
  /\ NotStarted => \A ch \in Targets :
                     /\ findPosition(grid, ch) = FirstOrNull(grid, ch)
                     /\ findPosition(grid, ch) = NullPosition <=> ~Holds(grid, ch)

C18_Witness ==
  /\ ~NotStarted
  /\ Count(grid, ENDING_CHAR) >= 2
  /\ \E r \in 1..Len(grid) : Len(grid[r]) # Len(grid[1])
  /\ start # NullPosition
  /\ end = FirstCell(grid, ENDING_CHAR)

\* C19: hasMultipleOccurrences is true exactly when two or more cells of the
\* grid hold the target, in a ragged grid as in a rectangular one, and false
\* for no occurrence and for one.
C19_TwoOrMore ==
  /\ ~NotStarted => haveMultipleStart = (Count(grid, STARTING_CHAR) >= 2)
  /\ NotStarted => \A ch \in Targets :
                     hasMultipleOccurrences(grid, ch) = (Count(grid, ch) >= 2)

C19_Witness ==
  /\ ~NotStarted
  /\ haveMultipleStart
  /\ \E r1, r2 \in 1..Len(grid) :
       /\ r1 # r2
       /\ Len(grid[r1]) # Len(grid[r2])
       /\ STARTING_CHAR \in {grid[r1][c] : c \in 1..Len(grid[r1])}
       /\ STARTING_CHAR \in {grid[r2][c] : c \in 1..Len(grid[r2])}

\* the length of the longest row of g
Width(g) ==
  IF g = << >> THEN 0
  ELSE CHOOSE n \in {Len(g[r]) : r \in 1..Len(g)} :
         \A r \in 1..Len(g) : Len(g[r]) <= n

\* positions in the grid, around it, and past the end of its short rows
Probes(g) ==
  {[row |-> r, col |-> c] : r \in (-1)..Len(g), c \in (-1)..Width(g)}

\* C20: isWithinBounds is true exactly for 0 <= row < number of rows and
\* 0 <= col < length of that row, so that a column beyond the end of a short
\* row is out of bounds although longer rows have it.
C20_BoundsOfThatRow ==
  /\ NotStarted =>
       {p \in Probes(grid) : isWithinBounds(grid, p)} = CellsOf(grid)
  /\ \A i \in 1..Len(trail) :
       isWithinBounds(grid, Ahead(i))
         <=> \E r \in 1..Len(grid) : \E c \in 1..Len(grid[r]) :
               Ahead(i) = [row |-> r - 1, col |-> c - 1]

C20_Witness ==
  /\ RejectedWith(MsgBroken)
  /\ Len(trail) > 0
  /\ LET p == Ahead(Len(trail))
     IN /\ p.row \in 0..(Len(grid) - 1)
        /\ p.col >= Len(grid[p.row + 1])
        /\ p.col < Width(grid)
        /\ p.col >= 0
        /\ ~isWithinBounds(grid, p)

\* C21: in the step loop the current position is in the grid on a cell that
\* holds '-', '|', '+', a letter or 'x': the walk never stands on a blank,
\* never reads outside the grid and never comes back to '@', which is in
\* path at index 0 only.
C21_StandsOnWalkable ==
  /\ pc = "Walking" => Open(grid, currentPosition) /\ currentPosition # start
  /\ \A i \in 1..Len(trail) : Open(grid, Visited(i)) /\ Visited(i) # start
  /\ \A k \in 1..Len(path) : path[k] = STARTING_CHAR <=> k = 1

\* a turn whose first cell to try is the '@' cell, taken to the other side
C21_Witness ==
  \E i \in 2..(Len(trail) - 1) :
    /\ Neighbour(Visited(i), BesideInOrder(Visited(i), trail[i].dir)[1]) = start
    /\ trail[i + 1].dir = BesideInOrder(Visited(i), trail[i].dir)[2]

\* C22: at a letter whose cell straight ahead is off the grid the walk goes
\* to the first walkable cell beside it, up before down or left before
\* right, and with both of them walkable it still goes to the first one: no
\* error about the number of valid directions is raised there.
C22_LetterOffGridTurnsFirst ==
  \A i \in 1..Len(trail) :
    /\ Cell(grid, Visited(i)) \in UpperCase
    /\ Visited(i) # end
    /\ ~InGrid(grid, Ahead(i))
    /\ Len(OpenBeside(i)) > 0
    => /\ MovedFrom(i, OpenBeside(i)[1])
       /\ ~RejectedAt(i)
       /\ i = Len(trail) /\ Recording /\ pc = "Walking"
            => /\ currentPosition = Neighbour(Visited(i), OpenBeside(i)[1])
               /\ direction = OpenBeside(i)[1]

C22_Witness ==
  \E i \in 1..(Len(trail) - 1) :
    /\ Cell(grid, Visited(i)) \in UpperCase
    /\ ~InGrid(grid, Ahead(i))
    /\ Len(OpenBeside(i)) = 2
    /\ trail[i + 1].dir = OpenBeside(i)[1]

\* C23: in a walk that is over, with a result or with an error, no pair of
\* position and direction occurs twice among the iterations of the step
\* loop, so that the path of a successful walk has at most 4 characters for
\* each cell of the grid, and one more.
C23_NoRepeatInFiniteWalk ==
  pc \in {"Done", "Rejected"}
    => /\ \A i, j \in 1..Len(trail) : trail[i] = trail[j] => i = j
       /\ pc = "Done" => Len(path) <= 4 * NumCells(grid) + 1

\* a walk that is over and went through one cell twice, in two directions
C23_Witness ==
  /\ pc = "Done"
  /\ \E i, j \in 1..Len(trail) : i < j /\ Visited(i) = Visited(j)

\* C24: after each iteration of the step loop path has one character for
\* each iteration and the leading '@', letters and the recorded positions
\* have the same length, no position is recorded twice, and the i-th letter
\* is the character of the grid at the i-th recorded position.
C24_AccumulatorsConsistent ==
  /\ pc \in {"Walking", "Done"} \/ Len(trail) > 0 => Len(path) = Len(trail) + 1
  /\ Len(letters) = Len(location)
  /\ \A i, j \in 1..Len(location) : location[i] = location[j] => i = j
  /\ \A i \in 1..Len(location) :
       InGrid(grid, location[i]) /\ letters[i] = Cell(grid, location[i])

\* two letters collected, and the cell of the first one visited again
C24_Witness ==
  /\ Len(letters) >= 2
  /\ Cardinality({i \in 1..Len(trail) : Visited(i) = location[1]}) >= 2

\* the number of rows and columns between two positions
Apart(p, q) ==
  (IF p.row >= q.row THEN p.row - q.row ELSE q.row - p.row)
    + (IF p.col >= q.col THEN p.col - q.col ELSE q.col - p.col)

\* C25: the direction is one of up, down, left and right, and two positions
\* visited one after the other, the '@' cell and the first visited cell
\* included, differ by one in one coordinate and are equal in the other: no
\* diagonal move, no jump, no stay.
C25_UnitSteps ==
  /\ pc \in {"Walking", "Done"} => direction \in {Up, Down, Left, Right}
  /\ \A i \in 1..Len(trail) :
       /\ trail[i].dir \in {Up, Down, Left, Right}
       /\ Apart(Visited(i), IF i = 1 THEN start ELSE Visited(i - 1)) = 1
       /\ Visited(i) = Neighbour(IF i = 1 THEN start ELSE Visited(i - 1), trail[i].dir)
  /\ pc = "Walking" /\ Recording
       => Apart(currentPosition, IF trail = << >> THEN start ELSE Visited(Len(trail))) = 1

\* a walk that has gone in each of the four directions
C25_Witness ==
  /\ pc = "Done"
  /\ {trail[i].dir : i \in 1..Len(trail)} = {Up, Down, Left, Right}

====
